---- MODULE Spec2Model ----
(***************************************************************************)
(* Gut: the branch-name codec (lib/utils.js) and the branch creation       *)
(* command "burgeon" with its lineage guards.                              *)
(*                                                                         *)
(* JavaScript values are modelled as sequences of strings:                 *)
(*   a string    is the sequence of its characters, "ab" = <<"a","b">>;    *)
(*   undefined   is the one-element sequence <<"undefined">>;              *)
(*   a number n  is <<"number">> followed by its decimal digits.           *)
(* Characters are one-character strings, so the three never collide.       *)
(***************************************************************************)
EXTENDS Integers, Sequences, FiniteSets, TLC

VARIABLES
  current,          \* git: the checked-out branch (getCurrentBranch)
  branches,         \* git: the existing local branches
  description,      \* git config branch.<name>.description, per branch
  pc,               \* position of the burgeon invocation
  arguments,        \* yargs argv of the invocation
  parsedBranch,     \* burgeon: utils.parseBranchName()
  newParsedBranch,  \* create*Branch: the cloned, overwritten descriptor
  newBranchName,    \* createBranch: utils.buildBranchName(newParsedBranch)
  log,              \* the steps the invocation has performed, in order
  runs,             \* number of invocations started
  op,               \* codec harness: the function applied last
  arg,              \* codec harness: its input
  result            \* codec harness: its output

vars == <<current, branches, description, pc, arguments, parsedBranch,
          newParsedBranch, newBranchName, log, runs, op, arg, result>>

runVars == <<current, branches, description, pc, arguments, parsedBranch,
             newParsedBranch, newBranchName, log, runs>>

codecVars == <<op, arg, result>>

----------------------------------------------------------------------------
(* Bounds *)

MaxFragments == 3   \* fragments of a branch name handed to parseBranchName
MaxRuns == 3        \* invocations of the command in one behaviour

----------------------------------------------------------------------------
(* JavaScript values *)

undefined == <<"undefined">>

Digits == {"0", "1", "2", "3", "4", "5", "6", "7", "8", "9"}

Num(digits) == <<"number">> \o digits

IsNumber(x) == Len(x) > 0 /\ x[1] = "number"

\* JavaScript truthiness of a string, a number or undefined
Truthy(x) ==
  /\ x # undefined
  /\ x # <<>>
  /\ x # Num(<<"0">>)

\* '' + x for a string or a number
ToStr(x) == IF IsNumber(x) THEN Tail(x) ELSE x

\* /^[0-9]+$/.test(s)
IsNumeric(s) == Len(s) > 0 /\ \A i \in 1..Len(s) : s[i] \in Digits

\* s.startsWith(p)
StartsWith(s, p) == Len(s) >= Len(p) /\ SubSeq(s, 1, Len(p)) = p

\* s.includes(c) for a character c
Includes(s, c) == \E i \in 1..Len(s) : s[i] = c

\* the first index at which p occurs in s, 0 when it does not occur
IndexOf(s, p) ==
  LET hits == {i \in 1..(Len(s) - Len(p) + 1) : SubSeq(s, i, i + Len(p) - 1) = p}
  IN IF hits = {} THEN 0 ELSE CHOOSE i \in hits : \A j \in hits : i <= j

\* _.replace(s, p, r) with a string pattern: the first occurrence only
Replace(s, p, r) ==
  LET i == IndexOf(s, p)
  IN IF i = 0 THEN s
     ELSE SubSeq(s, 1, i - 1) \o r \o SubSeq(s, i + Len(p), Len(s))

\* s.split('_'): always at least one fragment, empty fragments kept
RECURSIVE Split(_)
Split(s) ==
  LET i == IndexOf(s, <<"_">>)
  IN IF i = 0 THEN <<s>>
     ELSE <<SubSeq(s, 1, i - 1)>> \o Split(SubSeq(s, i + 1, Len(s)))

\* fragments.join('_')
RECURSIVE Join(_)
Join(fragments) ==
  IF Len(fragments) = 0 THEN <<>>
  ELSE IF Len(fragments) = 1 THEN fragments[1]
  ELSE fragments[1] \o <<"_">> \o Join(Tail(fragments))

\* _(xs).filter(x => /^[0-9]+$/.test(x)), order kept
RECURSIVE FilterNumeric(_)
FilterNumeric(xs) ==
  IF Len(xs) = 0 THEN <<>>
  ELSE (IF IsNumeric(xs[1]) THEN <<xs[1]>> ELSE <<>>) \o FilterNumeric(Tail(xs))

\* _(xs).reject(x => _.isEmpty(x)), order kept
RECURSIVE RejectEmpty(_)
RejectEmpty(xs) ==
  IF Len(xs) = 0 THEN <<>>
  ELSE (IF xs[1] = <<>> THEN <<>> ELSE <<xs[1]>>) \o RejectEmpty(Tail(xs))

----------------------------------------------------------------------------
(* lib/utils.js *)

BUILDABLE_BRANCH_TAG == <<"b", "u", "i", "l", "d", "#">>

getCurrentBranch == current

parseBranchName(branchName) ==
  LET branchFragments ==
        Split(IF Truthy(branchName) THEN branchName ELSE getCurrentBranch)
      featureFragment ==
        IF Len(branchFragments) > 1 /\ ~IsNumeric(branchFragments[2])
        THEN branchFragments[2]
        ELSE <<>>
      isBuildable == StartsWith(featureFragment, BUILDABLE_BRANCH_TAG)
      feature ==
        IF Truthy(featureFragment)
        THEN Replace(featureFragment, BUILDABLE_BRANCH_TAG, <<>>)
        ELSE <<>>
      numeric == FilterNumeric(branchFragments)
      ticketNumber == IF Len(numeric) = 0 THEN undefined ELSE numeric[1]
  IN [version |-> branchFragments[1],
      feature |-> feature,
      ticketNumber |-> ticketNumber,
      description |-> IF Len(branchFragments) > 1
                      THEN branchFragments[Len(branchFragments)]
                      ELSE <<>>,
      isBuildable |-> isBuildable]

\* buildBranchName with the .reject of the empty fragments left out
buildBranchName_KeepEmpty(parsedBranch_) ==
  LET versionFragment == parsedBranch_.version
      featureFragment ==
        (IF parsedBranch_.isBuildable THEN BUILDABLE_BRANCH_TAG ELSE <<>>)
          \o (IF Truthy(parsedBranch_.feature) THEN parsedBranch_.feature ELSE <<>>)
      ticketNumberFragment ==
        ToStr(IF Truthy(parsedBranch_.ticketNumber)
              THEN parsedBranch_.ticketNumber ELSE <<>>)
      descriptionFragment ==
        IF Truthy(parsedBranch_.description) THEN parsedBranch_.description ELSE <<>>
  IN Join(<<versionFragment, featureFragment, ticketNumberFragment,
            descriptionFragment>>)

buildBranchName(parsedBranch_) ==
  LET versionFragment == parsedBranch_.version
      featureFragment ==
        (IF parsedBranch_.isBuildable THEN BUILDABLE_BRANCH_TAG ELSE <<>>)
          \o (IF Truthy(parsedBranch_.feature) THEN parsedBranch_.feature ELSE <<>>)
      ticketNumberFragment ==
        ToStr(IF Truthy(parsedBranch_.ticketNumber)
              THEN parsedBranch_.ticketNumber ELSE <<>>)
      descriptionFragment ==
        IF Truthy(parsedBranch_.description) THEN parsedBranch_.description ELSE <<>>
  IN Join(RejectEmpty(<<versionFragment, featureFragment, ticketNumberFragment,
                        descriptionFragment>>))

s_master == <<"m", "a", "s", "t", "e", "r">>

isMasterBranch(parsedBranch_) ==
  /\ parsedBranch_.version = s_master
  /\ ~Truthy(parsedBranch_.feature)
  /\ ~Truthy(parsedBranch_.ticketNumber)
  /\ ~Truthy(parsedBranch_.description)

isVersionBranch(parsedBranch_) ==
  /\ Truthy(parsedBranch_.version)
  /\ ~Truthy(parsedBranch_.feature)
  /\ ~Truthy(parsedBranch_.ticketNumber)
  /\ ~Truthy(parsedBranch_.description)

isFeatureBranch(parsedBranch_) ==
  /\ Truthy(parsedBranch_.version)
  /\ Truthy(parsedBranch_.feature)
  /\ ~Truthy(parsedBranch_.ticketNumber)
  /\ ~Truthy(parsedBranch_.description)

isDevBranch(parsedBranch_) ==
  /\ Truthy(parsedBranch_.version)
  /\ Truthy(parsedBranch_.description)

----------------------------------------------------------------------------
(* lib/burgeon.js: the creation guards *)

\* the outcome of a function that either returns a value or throws an Error
Return(value) == [throws |-> FALSE, error |-> "", value |-> value]

Throw(error) == [throws |-> TRUE, error |-> error, value |-> undefined]

createVersionBranch(parsedBranch_, arguments_) ==
  LET newVersion == arguments_.version
  IN IF ~isMasterBranch(parsedBranch_)
     THEN Throw("It is only allowed to create version branches from master!")
     ELSE Return([parsedBranch_ EXCEPT !.version = newVersion])

createFeatureBranch(parsedBranch_, arguments_) ==
  LET newFeature == arguments_.feature
      isBuildable == arguments_.buildable
  IN IF ~isMasterBranch(parsedBranch_) /\ ~isVersionBranch(parsedBranch_)
     THEN Throw("It is only allowed to create feature branches from version branches or master!")
     ELSE Return([parsedBranch_ EXCEPT !.feature = newFeature,
                                       !.isBuildable = isBuildable])

createDevBranch(parsedBranch_, arguments_) ==
  LET newDescription == arguments_.dev
      newTicketNumber ==
        IF Truthy(arguments_.ticketNumber) THEN arguments_.ticketNumber ELSE <<>>
  IN IF ~isVersionBranch(parsedBranch_) /\ ~isFeatureBranch(parsedBranch_)
     THEN Throw("It is only allowed to create dev branches from version or feature branches!")
     ELSE Return([parsedBranch_ EXCEPT !.ticketNumber = newTicketNumber,
                                       !.description = newDescription])

----------------------------------------------------------------------------
(* lib/burgeon.js: the yargs validation of burgeon *)

hasNoUnderscores(argument) ==
  IF Includes(argument, "_")
  THEN Throw("Argument can't contain underscores")
  ELSE Return(argument)

\* the character class [0.9] of the version pattern: '0', '.' and '9'
VersionClass == {"0", ".", "9"}

\* /[0.9]+\.[0.9]+\.[0.9]+(\.[0.9]+)?/.test(argument): not anchored, so a
\* matching substring a..b with the two literal dots at p and q suffices (the
\* optional fourth component never decides a test)
VersionPatternTest(argument) ==
  \E a, p, q, b \in 1..Len(argument) :
    /\ a < p /\ p + 1 < q /\ q < b
    /\ argument[p] = "." /\ argument[q] = "."
    /\ \A i \in a..b : argument[i] \in VersionClass

coerceVersion(argument) ==
  IF ~VersionPatternTest(argument)
  THEN Throw("Argument version must follow semver!")
  ELSE Return(argument)

check(arguments_) ==
  LET newFeatureBranch == arguments_.feature
      newDevBranch == arguments_.dev
  IN IF Truthy(arguments_.ticketNumber) /\ ~Truthy(newDevBranch)
     THEN Throw("Argument ticket-number only makes sense when creating a dev branch")
     ELSE IF arguments_.buildable /\ ~Truthy(newFeatureBranch)
     THEN Throw("Argument buildable only makes sense when creating a feature branch")
     ELSE Return(TRUE)

\* .argv: each coerce runs on its option when the option is given, then check
Argv(arguments_) ==
  IF arguments_.version # undefined /\ coerceVersion(arguments_.version).throws
  THEN coerceVersion(arguments_.version)
  ELSE IF arguments_.feature # undefined /\ hasNoUnderscores(arguments_.feature).throws
  THEN hasNoUnderscores(arguments_.feature)
  ELSE IF arguments_.dev # undefined /\ hasNoUnderscores(arguments_.dev).throws
  THEN hasNoUnderscores(arguments_.dev)
  ELSE IF check(arguments_).throws
  THEN check(arguments_)
  ELSE Return(arguments_)

\* burgeon's if / else if / else over the creation flags
Dispatch(parsedBranch_, arguments_) ==
  IF Truthy(arguments_.version)
  THEN createVersionBranch(parsedBranch_, arguments_)
  ELSE IF Truthy(arguments_.feature)
  THEN createFeatureBranch(parsedBranch_, arguments_)
  ELSE createDevBranch(parsedBranch_, arguments_)

\* which create*Branch the dispatch calls
Requested(arguments_) ==
  IF Truthy(arguments_.version) THEN "version"
  ELSE IF Truthy(arguments_.feature) THEN "feature"
  ELSE "dev"

----------------------------------------------------------------------------
(* Inputs *)

s_1_2_3 == <<"1", ".", "2", ".", "3">>
s_0_0_0 == <<"0", ".", "0", ".", "0">>
s_2_10_0 == <<"2", ".", "1", "0", ".", "0">>
s_2_10_0_1 == <<"2", ".", "1", "0", ".", "0", ".", "1">>
s_2_10 == <<"2", ".", "1", "0">>
s_v2_10_0 == <<"v", "2", ".", "1", "0", ".", "0">>
s_login == <<"l", "o", "g", "i", "n">>
s_42 == <<"4", "2">>
s_fix_bug == <<"f", "i", "x", "-", "b", "u", "g">>
s_a == <<"a">>
s_f == <<"f">>
s_a_b == <<"a", "_", "b">>
s_f_g == <<"f", "_", "g">>

\* gutOptions.username
username == <<"u">>

\* the argv records of an invocation; an option not given is undefined
\* (buildable, a boolean option, is false when not given)
Arguments ==
  [version : {undefined, s_0_0_0, s_2_10_0},
   feature : {undefined, s_a, s_a_b},
   dev : {undefined, s_f, s_f_g},
   ticketNumber : {undefined, Num(<<"0">>), Num(<<"5">>)},
   buildable : BOOLEAN]

\* the descriptor a variable holds before the code assigns it
NoBranch ==
  [version |-> undefined, feature |-> undefined, ticketNumber |-> undefined,
   description |-> undefined, isBuildable |-> FALSE]

NoArguments ==
  [version |-> undefined, feature |-> undefined, dev |-> undefined,
   ticketNumber |-> undefined, buildable |-> FALSE]

----------------------------------------------------------------------------
(* burgeon, one invocation after another on one repository *)

InitRun ==
  /\ current = s_master
  /\ branches = {s_master}
  /\ description = <<>>
  /\ pc = "idle"
  /\ arguments = NoArguments
  /\ parsedBranch = NoBranch
  /\ newParsedBranch = NoBranch
  /\ newBranchName = undefined
  /\ log = <<>>
  /\ runs = 0

InitCodec ==
  /\ op = "none"
  /\ arg = undefined
  /\ result = undefined

Init == InitRun /\ InitCodec

\* the command is started with some argv
Invoke ==
  /\ pc = "idle"
  /\ runs < MaxRuns
  /\ \E a \in Arguments : arguments' = a
  /\ runs' = runs + 1
  /\ pc' = "argv"
  /\ log' = <<>>
  /\ parsedBranch' = NoBranch
  /\ newParsedBranch' = NoBranch
  /\ newBranchName' = undefined
  /\ UNCHANGED <<current, branches, description, codecVars>>

\* yargs parses and validates argv; a failure ends the invocation
ParseArgv ==
  /\ pc = "argv"
  /\ IF Argv(arguments).throws
     THEN pc' = "failed" /\ log' = Append(log, "throw")
     ELSE pc' = "dispatch" /\ log' = Append(log, "argv")
  /\ UNCHANGED <<current, branches, description, arguments, parsedBranch,
                 newParsedBranch, newBranchName, runs, codecVars>>

\* burgeon decodes the current branch and calls create*Branch up to the guard
Lineage ==
  /\ pc = "dispatch"
  /\ parsedBranch' = parseBranchName(undefined)
  /\ LET outcome == Dispatch(parsedBranch', arguments)
     IN IF outcome.throws
        THEN /\ pc' = "failed"
             /\ log' = Append(log, "throw")
             /\ newParsedBranch' = newParsedBranch
        ELSE /\ pc' = "createBranch"
             /\ log' = Append(log, "lineage")
             /\ newParsedBranch' = outcome.value
  /\ UNCHANGED <<current, branches, description, arguments, newBranchName,
                 runs, codecVars>>

\* createBranch, up to the encoded name
CreateBranch ==
  /\ pc = "createBranch"
  /\ newParsedBranch' =
       [author |-> username, baseBranch |-> getCurrentBranch] @@ newParsedBranch
  /\ newBranchName' = buildBranchName(newParsedBranch')
  /\ pc' = "checkout"
  /\ log' = Append(log, "encode")
  /\ UNCHANGED <<current, branches, description, arguments, parsedBranch,
                 runs, codecVars>>

\* Checkout with a git failure not thrown: the invocation goes on to the
\* metadata write without the branch
Checkout_Swallow ==
  /\ pc = "checkout"
  /\ \E gitFails \in BOOLEAN :
       IF gitFails \/ newBranchName \in branches
       THEN UNCHANGED <<current, branches>>
       ELSE /\ branches' = branches \cup {newBranchName}
            /\ current' = newBranchName
  /\ pc' = "config"
  /\ log' = Append(log, "checkout")
  /\ UNCHANGED <<description, arguments, parsedBranch, newParsedBranch,
                 newBranchName, runs, codecVars>>

\* utils.execute(`git checkout -b ...`): execSync throws when git fails, which
\* it does for a branch that exists and may do for reasons outside the model
Checkout ==
  /\ pc = "checkout"
  /\ \E gitFails \in BOOLEAN :
       IF gitFails \/ newBranchName \in branches
       THEN /\ pc' = "failed"
            /\ log' = Append(log, "throw")
            /\ UNCHANGED <<current, branches>>
       ELSE /\ pc' = "config"
            /\ log' = Append(log, "checkout")
            /\ branches' = branches \cup {newBranchName}
            /\ current' = newBranchName
  /\ UNCHANGED <<description, arguments, parsedBranch, newParsedBranch,
                 newBranchName, runs, codecVars>>

\* utils.execute(`git config branch.<name>.description ...`)
Config ==
  /\ pc = "config"
  /\ \E gitFails \in BOOLEAN :
       IF gitFails
       THEN /\ pc' = "failed"
            /\ log' = Append(log, "throw")
            /\ UNCHANGED description
       ELSE /\ pc' = "done"
            /\ log' = Append(log, "config")
            /\ description' = (newBranchName :> newParsedBranch) @@ description
  /\ UNCHANGED <<current, branches, arguments, parsedBranch, newParsedBranch,
                 newBranchName, runs, codecVars>>

\* the process ends; the repository stays as it is
Exit ==
  /\ pc \in {"done", "failed"}
  /\ pc' = "idle"
  /\ UNCHANGED <<current, branches, description, arguments, parsedBranch,
                 newParsedBranch, newBranchName, log, runs, codecVars>>

Next == Invoke \/ ParseArgv \/ Lineage \/ CreateBranch \/ Checkout \/ Config \/ Exit

Spec == Init /\ [][Next]_vars

----------------------------------------------------------------------------
(* The codec, the guards and the version validator, each applied once to   *)
(* an input drawn from a bounded set                                       *)

MaxVersionLen == 5  \* length of the strings handed to the version validator

\* the fragments branch names are joined from
Fragments ==
  {s_master, s_1_2_3, s_login, s_42, s_fix_bug,
   BUILDABLE_BRANCH_TAG, BUILDABLE_BRANCH_TAG \o s_login,
   s_a \o BUILDABLE_BRANCH_TAG \o s_f}

BranchNames ==
  {Join(fs) : fs \in UNION {[1..n -> Fragments] : n \in 1..MaxFragments}}

\* descriptors, with and without the side metadata createBranch adds
Descriptors ==
  [version : {s_master, s_1_2_3},
   feature : {<<>>, s_login, s_42, s_a_b},
   ticketNumber : {<<>>, s_42},
   description : {<<>>, s_fix_bug, s_42},
   isBuildable : BOOLEAN]

Metadata ==
  [author : {username, s_a}, baseBranch : {s_master, s_1_2_3}]

VersionAlphabet == {"0", "2", "."}

VersionStrings ==
  UNION {[1..n -> VersionAlphabet] : n \in 0..MaxVersionLen}
    \cup {s_2_10_0, s_2_10_0_1, s_2_10, s_v2_10_0, <<"9", ".", "9", ".", "9">>}

\* the argv records that pass validation and, by the flag of that kind, make
\* burgeon call the create*Branch of the kind
ArgumentsFor(kind) ==
  {a \in Arguments : ~Argv(a).throws /\ Requested(a) = kind /\ Truthy(a[kind])}

ApplyParseBranchName ==
  /\ op = "none"
  /\ \E b \in BranchNames :
       /\ op' = "parseBranchName"
       /\ arg' = b
       /\ result' = parseBranchName(b)
  /\ UNCHANGED runVars

ApplyBuildBranchName ==
  /\ op = "none"
  /\ \E d \in Descriptors \cup {m @@ e : m \in Metadata, e \in Descriptors} :
       /\ op' = "buildBranchName"
       /\ arg' = d
       /\ result' = buildBranchName(d)
  /\ UNCHANGED runVars

ApplyCreateVersionBranch ==
  /\ op = "none"
  /\ \E d \in Descriptors, a \in ArgumentsFor("version") :
       /\ op' = "createVersionBranch"
       /\ arg' = [parsedBranch |-> d, arguments |-> a]
       /\ result' = createVersionBranch(d, a)
  /\ UNCHANGED runVars

ApplyCreateFeatureBranch ==
  /\ op = "none"
  /\ \E d \in Descriptors, a \in ArgumentsFor("feature") :
       /\ op' = "createFeatureBranch"
       /\ arg' = [parsedBranch |-> d, arguments |-> a]
       /\ result' = createFeatureBranch(d, a)
  /\ UNCHANGED runVars

ApplyCreateDevBranch ==
  /\ op = "none"
  /\ \E d \in Descriptors, a \in ArgumentsFor("dev") :
       /\ op' = "createDevBranch"
       /\ arg' = [parsedBranch |-> d, arguments |-> a]
       /\ result' = createDevBranch(d, a)
  /\ UNCHANGED runVars

ApplyCoerceVersion ==
  /\ op = "none"
  /\ \E v \in VersionStrings :
       /\ op' = "coerceVersion"
       /\ arg' = v
       /\ result' = coerceVersion(v)
  /\ UNCHANGED runVars

NextCodec ==
  \/ ApplyParseBranchName
  \/ ApplyBuildBranchName
  \/ ApplyCreateVersionBranch
  \/ ApplyCreateFeatureBranch
  \/ ApplyCreateDevBranch
  \/ ApplyCoerceVersion

SpecCodec == Init /\ [][NextCodec]_vars

----------------------------------------------------------------------------
(* The documented behaviour the claims compare the code with *)

RECURSIVE SplitDots(_)
SplitDots(s) ==
  LET i == IndexOf(s, <<".">>)
  IN IF i = 0 THEN <<s>>
     ELSE <<SubSeq(s, 1, i - 1)>> \o SplitDots(SubSeq(s, i + 1, Len(s)))

\* 3 or 4 dot-separated components, each of one or more decimal digits
IsSemverLike(s) ==
  LET parts == SplitDots(s)
  IN /\ Len(parts) \in {3, 4}
     /\ \A i \in 1..Len(parts) : IsNumeric(parts[i])

\* the kind of a descriptor by the state definitions of the lineage rules
KindOf(d) ==
  IF Truthy(d.version) /\ Truthy(d.description) THEN "Dev"
  ELSE IF ~Truthy(d.version) \/ Truthy(d.ticketNumber) THEN "None"
  ELSE IF Truthy(d.feature) THEN "Feature"
  ELSE IF d.version = s_master THEN "Master"
  ELSE IF IsSemverLike(d.version) THEN "Version"
  ELSE "None"

Kinds == {"Master", "Version", "Feature", "Dev"}

\* the lineage table: the current kinds a kind may be created from
LegalParents(requested) ==
  CASE requested = "createVersionBranch" -> {"Master"}
    [] requested = "createFeatureBranch" -> {"Master", "Version"}
    [] requested = "createDevBranch" -> {"Version", "Feature"}

\* the kinds the four predicates of the code give a descriptor
Classes(d) ==
  {k \in Kinds :
     \/ k = "Master" /\ isMasterBranch(d)
     \/ k = "Version" /\ isVersionBranch(d)
     \/ k = "Feature" /\ isFeatureBranch(d)
     \/ k = "Dev" /\ isDevBranch(d)}

\* the invariants of a descriptor: non-empty version, no separator in feature
\* and description, a ticket number of digits, the buildable tag only on a
\* feature, a ticket number only with a description
ValidDescriptor(d) ==
  /\ d.version # <<>>
  /\ ~Includes(d.feature, "_")
  /\ ~Includes(d.description, "_")
  /\ d.ticketNumber = <<>> \/ IsNumeric(d.ticketNumber)
  /\ d.isBuildable => d.feature # <<>>
  /\ d.ticketNumber # <<>> => d.description # <<>>

\* the five fields the branch name carries
Encoded(d) ==
  [version |-> d.version, feature |-> d.feature, isBuildable |-> d.isBuildable,
   ticketNumber |-> d.ticketNumber, description |-> d.description]

\* the decode as documented, fragment by fragment
DocumentedDecode(branchName) ==
  LET fragments == Split(branchName)
      hasFeature == Len(fragments) > 1 /\ ~IsNumeric(fragments[2])
      tagged == hasFeature /\ StartsWith(fragments[2], BUILDABLE_BRANCH_TAG)
      numeric == FilterNumeric(fragments)
  IN [version |-> fragments[1],
      feature |-> IF ~hasFeature THEN <<>>
                  ELSE IF tagged
                  THEN SubSeq(fragments[2], Len(BUILDABLE_BRANCH_TAG) + 1,
                              Len(fragments[2]))
                  ELSE fragments[2],
      isBuildable |-> tagged,
      ticketNumber |-> IF Len(numeric) = 0 THEN <<>> ELSE numeric[1],
      description |-> IF Len(fragments) > 1 THEN fragments[Len(fragments)]
                      ELSE <<>>]

----------------------------------------------------------------------------
(* Claims *)

\* C1: for every valid descriptor d, parseBranchName(buildBranchName(d)) has
\* the same version, feature, isBuildable, ticketNumber and description as d.
C1_RoundTrip ==
  (op = "buildBranchName" /\ ValidDescriptor(arg))
    => Encoded(parseBranchName(result)) = Encoded(arg)

\* C2: a creation guard lets a valid current descriptor of kind Master,
\* Version, Feature or Dev through exactly when the lineage table allows the
\* pair.
C2_GuardsMatchTable ==
  (op \in {"createVersionBranch", "createFeatureBranch", "createDevBranch"}
     /\ ValidDescriptor(arg.parsedBranch)
     /\ KindOf(arg.parsedBranch) \in Kinds)
    => (~result.throws <=> KindOf(arg.parsedBranch) \in LegalParents(op))

\* the invocation has just been refused by the guard of create*Branch
LineageRefused == pc = "failed" /\ log = <<"argv", "throw">>

\* C3: on a branch the tool created for a feature descriptor of a version, a
\* dev request with a non-empty underscore-free description passes the guard.
C3_DevFromFeature ==
  (/\ current \in DOMAIN description
   /\ KindOf(description[current]) = "Feature"
   /\ IsSemverLike(description[current].version)
   /\ Requested(arguments) = "dev"
   /\ Truthy(arguments.dev))
    => ~LineageRefused

\* C4: for a name encoded from a valid descriptor of kind Master, Version,
\* Feature or Dev, exactly one of the four predicates holds of the decoded
\* descriptor, and it is the kind of the descriptor the name was encoded from.
C4_ClassificationExclusive ==
  (op = "buildBranchName" /\ ValidDescriptor(arg) /\ KindOf(arg) \in Kinds)
    => Classes(parseBranchName(result)) = {KindOf(arg)}

\* C5: the version validator accepts a string exactly when it consists of 3
\* or 4 dot-separated components of one or more decimal digits each.
C5_VersionValidator ==
  op = "coerceVersion" => (~result.throws <=> IsSemverLike(arg))

\* C6: parseBranchName returns the documented decode of every branch name:
\* a leading build# tag stripped, every field not found the empty string.
C6_DocumentedDecode ==
  (op = "parseBranchName" /\ arg # <<>>) => result = DocumentedDecode(arg)

\* the fields of a descriptor that are not empty
NonEmptyFields(d) ==
  {f \in {"version", "feature", "ticketNumber", "description"} : d[f] # <<>>}

\* the documented shape of an encoded name: the non-empty fragments in order,
\* no empty fragment, and the side metadata without effect
WellJoined(d, name) ==
  /\ \A i \in 1..(Len(name) - 1) : ~(name[i] = "_" /\ name[i + 1] = "_")
  /\ name[1] # "_"
  /\ name[Len(name)] # "_"
  /\ Split(name) =
       RejectEmpty(<<d.version,
                     (IF d.isBuildable THEN BUILDABLE_BRANCH_TAG ELSE <<>>)
                       \o d.feature,
                     d.ticketNumber,
                     d.description>>)
  /\ name = buildBranchName(Encoded(d))

UnderscoreFree(d) ==
  /\ d.version # <<>>
  /\ \A f \in {"version", "feature", "ticketNumber", "description"} :
       ~Includes(d[f], "_")

C8_TicketOnlyWithDev ==
  (arguments.ticketNumber # undefined /\ pc \in {"config", "done"})
    => KindOf(newParsedBranch) = "Dev"

Steps == <<"argv", "lineage", "encode", "checkout", "config">>

\* C9: the steps of an invocation run in the order validation, lineage check,
\* encoding, branch creation, metadata write; the branch is created only
\* after the first three have passed, metadata is written only after the
\* branch exists, and a failure ends the invocation with nothing done after it.
C9_Ordering ==
  /\ [](\E n \in 0..Len(Steps) :
          \/ log = SubSeq(Steps, 1, n)
          \/ n < Len(Steps) /\ log = Append(SubSeq(Steps, 1, n), "throw"))
  /\ [](pc = "failed" => (Len(log) > 0 /\ log[Len(log)] = "throw"))
  /\ []((Len(log) > 0 /\ log[Len(log)] = "throw") => pc \in {"failed", "idle"})
  /\ [][branches' # branches =>
          /\ log = SubSeq(Steps, 1, 3)
          /\ ~Argv(arguments).throws
          /\ ~Dispatch(parseBranchName(undefined), arguments).throws
          /\ newBranchName = buildBranchName(newParsedBranch)
          /\ branches' = branches \cup {newBranchName}
          /\ description' = description]_vars
  /\ [][description' # description =>
          /\ log = SubSeq(Steps, 1, 4)
          /\ current = newBranchName
          /\ newBranchName \in branches
          /\ branches' = branches]_vars
  /\ [][pc = "failed" =>
          /\ pc' = "idle"
          /\ branches' = branches
          /\ description' = description
          /\ current' = current]_vars

\* C9 witness: an invocation that ran all five steps
C9_Witness ==
  /\ pc = "done"
  /\ log = Steps
  /\ current \in DOMAIN description

\* C10: every descriptor parseBranchName returns that is buildable has a
\* non-empty feature.
C10_BuildableImpliesFeature ==
  op = "parseBranchName" => (result.isBuildable => result.feature # <<>>)

====
